---- MODULE Spec2Model ----
(***************************************************************************)
(* Versioned-specification registry and demand-control directive           *)
(* propagation of apollo-federation (link/cost_spec_definition.rs,         *)
(* sources/connect/spec/mod.rs).                                           *)
(*                                                                         *)
(* Five specifications share the variables below:                          *)
(*   Spec          propagation of @cost/@listSize (field level and enum)   *)
(*   SpecBuild     cost_directive / list_size_directive                    *)
(*   SpecDiscovery ConnectSpecDefinition::from_directive, one call         *)
(*   SpecLookups   ConnectSpecDefinition::from_directive, several calls    *)
(*   SpecRegistry  lazy one-time initialisation of the version registries  *)
(***************************************************************************)
EXTENDS Naturals, Sequences, FiniteSets

VARIABLES
    source,                    \* the source DirectiveList (source.directives for an enum)
    original_directive_names,  \* HashMap<Name, Name>: canonical -> name in the source document
    subgraph_schema,           \* the destination FederationSchema: link metadata and the enum
    dest,                      \* the destination DirectiveList of field/type-level propagation
    hist,                      \* the calls made so far, each with its result and the destination after it
    built,                     \* the last cost_directive / list_size_directive call
    directive,                 \* the last directive handed to from_directive
    discovered,                \* what from_directive returned for it
    lookups,                   \* from_directive calls: parsed identity, version and result
    lazy,                      \* the two lazy statics: Once state and published registry
    threads,                   \* each thread's position and locals
    initRuns,                  \* how many times each initialiser block has run
    published,                 \* the registry each lazy static held when it was first published
    reads                      \* what each completed find() observed

vars == << source, original_directive_names, subgraph_schema, dest, hist, built,
           directive, discovered, lookups, lazy, threads, initRuns, published, reads >>

costVars == << source, original_directive_names, subgraph_schema, dest, hist >>
connectVars == << directive, discovered, lookups >>
registryVars == << lazy, threads, initRuns, published, reads >>

----------------------------------------------------------------------------
(* Bounds *)

MaxSourceLen == 2     \* applications on a source position
MaxCalls == 2         \* successive propagation calls on one destination
MaxArgs == 2          \* arguments handed to cost_directive / list_size_directive
MaxVersionLen == 4    \* characters of a url's version segment
NumThreads == 2       \* threads that access the lazy statics

----------------------------------------------------------------------------
(* Option and Result *)

None == [some |-> FALSE]
Some(x) == [some |-> TRUE, value |-> x]
UnwrapOr(o, d) == IF o.some THEN o.value ELSE d

Ok(x) == [ok |-> TRUE, value |-> x]
Err(kind) == [ok |-> FALSE, error |-> kind]
Unit == "unit"

----------------------------------------------------------------------------
(* Names of the Cost specification *)

COST_DIRECTIVE_NAME_IN_SPEC == "cost"
COST_DIRECTIVE_NAME_DEFAULT == "federation__cost"
COST_WEIGHT_ARGUMENT_NAME == "weight"
LIST_SIZE_DIRECTIVE_NAME_IN_SPEC == "listSize"
LIST_SIZE_DIRECTIVE_NAME_DEFAULT == "federation__listSize"
LIST_SIZE_ASSUMED_SIZE_ARGUMENT_NAME == "assumedSize"

CanonicalNames == {COST_DIRECTIVE_NAME_IN_SPEC, LIST_SIZE_DIRECTIVE_NAME_IN_SPEC}

(* Directive { name, arguments }: the argument list is an opaque ordered payload. *)
Directive(name, arguments) == [name |-> name, arguments |-> arguments]

Arguments ==
    { [name |-> COST_WEIGHT_ARGUMENT_NAME, value |-> 5],
      [name |-> COST_WEIGHT_ARGUMENT_NAME, value |-> 7],
      [name |-> LIST_SIZE_ASSUMED_SIZE_ARGUMENT_NAME, value |-> 10] }

(* Argument lists of the source applications. *)
SourceArgLists ==
    { << [name |-> COST_WEIGHT_ARGUMENT_NAME, value |-> 5] >>,
      << [name |-> LIST_SIZE_ASSUMED_SIZE_ARGUMENT_NAME, value |-> 10],
         [name |-> COST_WEIGHT_ARGUMENT_NAME, value |-> 7] >> }

----------------------------------------------------------------------------
(* apollo_compiler DirectiveList *)

RECURSIVE FirstNamed(_, _, _)
FirstNamed(list, name, i) ==
    IF i > Len(list) THEN None
    ELSE IF list[i].name = name THEN Some(list[i])
    ELSE FirstNamed(list, name, i + 1)

(* DirectiveList::get: the first application with the given name, if any. *)
DirectiveListGet(list, name) == FirstNamed(list, name, 1)

(* HashMap::get *)
MapGet(map, key) == IF key \in DOMAIN map THEN Some(map[key]) ELSE None

----------------------------------------------------------------------------
(* Link metadata of a schema and name resolution (SpecDefinition capability) *)

DirectiveNameResolutionFailure == "DirectiveNameResolutionFailure"
ConflictingDirectiveInsertion == "ConflictingDirectiveInsertion"
SchemaMutationFailure == "SchemaMutationFailure"

(* The schema-qualified default a linked specification may declare for a name. *)
LinkedDefault(name_in_spec) ==
    IF name_in_spec = COST_DIRECTIVE_NAME_IN_SPEC THEN "cost__cost" ELSE "cost__listSize"

(* Link::directive_name_in_schema: explicit rename, else the linked default. *)
LinkDirectiveNameInSchema(link, name_in_spec) ==
    IF name_in_spec \in DOMAIN link.renames THEN link.renames[name_in_spec]
    ELSE IF link.qualified THEN LinkedDefault(name_in_spec)
    ELSE name_in_spec

(* SpecDefinition::directive_name_in_schema for the Cost identity:
   Err when the link state is inconsistent, Ok(None) when the schema has no
   Link for the identity, Ok(Some(name)) otherwise. *)
directive_name_in_schema(schema, name_in_spec) ==
    IF schema.links.state = "inconsistent" THEN Err(DirectiveNameResolutionFailure)
    ELSE IF schema.links.state = "unlinked" THEN Ok(None)
    ELSE Ok(Some(LinkDirectiveNameInSchema(schema.links, name_in_spec)))

----------------------------------------------------------------------------
(* CostSpecDefinition: directive construction *)

cost_directive(schema, arguments) ==
    LET name == directive_name_in_schema(schema, COST_DIRECTIVE_NAME_IN_SPEC)
    IN  IF ~name.ok THEN name
        ELSE Ok(Directive(UnwrapOr(name.value, COST_DIRECTIVE_NAME_DEFAULT), arguments))

(* list_size_directive written from cost_directive with the names left as they were. *)
list_size_directive_as_cost(schema, arguments) ==
    LET name == directive_name_in_schema(schema, COST_DIRECTIVE_NAME_IN_SPEC)
    IN  IF ~name.ok THEN name
        ELSE Ok(Directive(UnwrapOr(name.value, COST_DIRECTIVE_NAME_DEFAULT), arguments))

list_size_directive(schema, arguments) ==
    LET name == directive_name_in_schema(schema, LIST_SIZE_DIRECTIVE_NAME_IN_SPEC)
    IN  IF ~name.ok THEN name
        ELSE Ok(Directive(UnwrapOr(name.value, LIST_SIZE_DIRECTIVE_NAME_DEFAULT), arguments))

----------------------------------------------------------------------------
(* EnumTypeDefinitionPosition::insert_directive: the position's insertion
   contract.  A missing position is a SchemaMutationFailure; an application
   of the same directive with other arguments is a conflict and is never
   overwritten; an identical application is already there; otherwise the
   application is appended. *)

Conflicts(directives, d) ==
    \E i \in 1..Len(directives) :
        directives[i].name = d.name /\ directives[i].arguments # d.arguments

Carries(directives, d) == \E i \in 1..Len(directives) : directives[i] = d

insert_directive(schema, d) ==
    IF ~schema.enum.present
        THEN [result |-> Err(SchemaMutationFailure), schema |-> schema]
    ELSE IF Conflicts(schema.enum.directives, d)
        THEN [result |-> Err(ConflictingDirectiveInsertion), schema |-> schema]
    ELSE IF Carries(schema.enum.directives, d)
        THEN [result |-> Ok(Unit), schema |-> schema]
    ELSE [result |-> Ok(Unit),
          schema |-> [schema EXCEPT !.enum.directives = Append(@, d)]]

----------------------------------------------------------------------------
(* CostSpecDefinition::propagate_demand_control_directives *)

(* A lookup that forgets the rename table. *)
CanonicalNameOnly(names, name_in_spec) == name_in_spec

(* The name a canonical directive carries in the source document. *)
OriginalName(names, name_in_spec) ==
    UnwrapOr(MapGet(names, name_in_spec), name_in_spec)

(* Variants of the field/type-level propagation, as slips of its code would
   make it: the listSize block nested in the cost block; the names resolved
   before the source is looked at; an application pushed only when the
   destination does not carry it yet. *)
propagate_nested(schema, src, list, names) ==
    LET cost_found == DirectiveListGet(src, OriginalName(names, COST_DIRECTIVE_NAME_IN_SPEC))
        cost_built == cost_directive(schema, cost_found.value.arguments)
        list1 == Append(list, cost_built.value)
        size_found == DirectiveListGet(src, OriginalName(names, LIST_SIZE_DIRECTIVE_NAME_IN_SPEC))
        size_built == list_size_directive(schema, size_found.value.arguments)
    IN  IF ~cost_found.some THEN [result |-> Ok(Unit), dest |-> list]
        ELSE IF ~cost_built.ok THEN [result |-> cost_built, dest |-> list]
        ELSE IF ~size_found.some THEN [result |-> Ok(Unit), dest |-> list1]
        ELSE IF ~size_built.ok THEN [result |-> size_built, dest |-> list1]
        ELSE [result |-> Ok(Unit), dest |-> Append(list1, size_built.value)]

propagate_resolving_first(schema, src, list, names) ==
    LET cost_found == DirectiveListGet(src, OriginalName(names, COST_DIRECTIVE_NAME_IN_SPEC))
        cost_built == cost_directive(schema, IF cost_found.some
                                             THEN cost_found.value.arguments ELSE << >>)
        list1 == IF cost_found.some THEN Append(list, cost_built.value) ELSE list
        size_found == DirectiveListGet(src, OriginalName(names, LIST_SIZE_DIRECTIVE_NAME_IN_SPEC))
        size_built == list_size_directive(schema, IF size_found.some
                                                  THEN size_found.value.arguments ELSE << >>)
    IN  IF ~cost_built.ok THEN [result |-> cost_built, dest |-> list]
        ELSE IF ~size_built.ok THEN [result |-> size_built, dest |-> list1]
        ELSE IF ~size_found.some THEN [result |-> Ok(Unit), dest |-> list1]
        ELSE [result |-> Ok(Unit), dest |-> Append(list1, size_built.value)]

PushUnlessCarried(list, d) ==
    IF \E i \in 1..Len(list) : list[i] = d THEN list ELSE Append(list, d)

propagate_unless_carried(schema, src, list, names) ==
    LET cost_found == DirectiveListGet(src, OriginalName(names, COST_DIRECTIVE_NAME_IN_SPEC))
        cost_built == cost_directive(schema, cost_found.value.arguments)
        list1 == IF cost_found.some THEN PushUnlessCarried(list, cost_built.value) ELSE list
        size_found == DirectiveListGet(src, OriginalName(names, LIST_SIZE_DIRECTIVE_NAME_IN_SPEC))
        size_built == list_size_directive(schema, size_found.value.arguments)
    IN  IF cost_found.some /\ ~cost_built.ok
            THEN [result |-> cost_built, dest |-> list]
        ELSE IF ~size_found.some
            THEN [result |-> Ok(Unit), dest |-> list1]
        ELSE IF ~size_built.ok
            THEN [result |-> size_built, dest |-> list1]
        ELSE [result |-> Ok(Unit), dest |-> PushUnlessCarried(list1, size_built.value)]

propagate_demand_control_directives(schema, src, list, names) ==
    LET cost_found == DirectiveListGet(src, OriginalName(names, COST_DIRECTIVE_NAME_IN_SPEC))
        cost_built == cost_directive(schema, cost_found.value.arguments)
        list1 == IF cost_found.some THEN Append(list, cost_built.value) ELSE list
        size_found == DirectiveListGet(src, OriginalName(names, LIST_SIZE_DIRECTIVE_NAME_IN_SPEC))
        size_built == list_size_directive(schema, size_found.value.arguments)
    IN  IF cost_found.some /\ ~cost_built.ok
            THEN [result |-> cost_built, dest |-> list]
        ELSE IF ~size_found.some
            THEN [result |-> Ok(Unit), dest |-> list1]
        ELSE IF ~size_built.ok
            THEN [result |-> size_built, dest |-> list1]
        ELSE [result |-> Ok(Unit), dest |-> Append(list1, size_built.value)]

(* CostSpecDefinition::propagate_demand_control_directives_for_enum *)

(* Variants of the enum propagation: the application pushed onto the enum's
   directives without the position's insertion contract; the listSize block
   before the cost block. *)
push_directive(schema, d) ==
    [result |-> Ok(Unit),
     schema |-> [schema EXCEPT !.enum.directives = Append(@, d)]]

propagate_for_enum_pushing(schema, src, names) ==
    LET cost_found == DirectiveListGet(src, OriginalName(names, COST_DIRECTIVE_NAME_IN_SPEC))
        cost_built == cost_directive(schema, cost_found.value.arguments)
        cost_inserted == push_directive(schema, cost_built.value)
        schema1 == IF cost_found.some THEN cost_inserted.schema ELSE schema
        size_found == DirectiveListGet(src, OriginalName(names, LIST_SIZE_DIRECTIVE_NAME_IN_SPEC))
        size_built == list_size_directive(schema1, size_found.value.arguments)
    IN  IF cost_found.some /\ ~cost_built.ok
            THEN [result |-> cost_built, schema |-> schema]
        ELSE IF ~size_found.some
            THEN [result |-> Ok(Unit), schema |-> schema1]
        ELSE IF ~size_built.ok
            THEN [result |-> size_built, schema |-> schema1]
        ELSE push_directive(schema1, size_built.value)

propagate_for_enum_list_size_first(schema, src, names) ==
    LET size_found == DirectiveListGet(src, OriginalName(names, LIST_SIZE_DIRECTIVE_NAME_IN_SPEC))
        size_built == list_size_directive(schema, size_found.value.arguments)
        size_inserted == insert_directive(schema, size_built.value)
        schema1 == IF size_found.some THEN size_inserted.schema ELSE schema
        cost_found == DirectiveListGet(src, OriginalName(names, COST_DIRECTIVE_NAME_IN_SPEC))
        cost_built == cost_directive(schema1, cost_found.value.arguments)
    IN  IF size_found.some /\ ~size_built.ok
            THEN [result |-> size_built, schema |-> schema]
        ELSE IF size_found.some /\ ~size_inserted.result.ok
            THEN size_inserted
        ELSE IF ~cost_found.some
            THEN [result |-> Ok(Unit), schema |-> schema1]
        ELSE IF ~cost_built.ok
            THEN [result |-> cost_built, schema |-> schema1]
        ELSE insert_directive(schema1, cost_built.value)

propagate_demand_control_directives_for_enum(schema, src, names) ==
    LET cost_found == DirectiveListGet(src, OriginalName(names, COST_DIRECTIVE_NAME_IN_SPEC))
        cost_built == cost_directive(schema, cost_found.value.arguments)
        cost_inserted == insert_directive(schema, cost_built.value)
        schema1 == IF cost_found.some THEN cost_inserted.schema ELSE schema
        size_found == DirectiveListGet(src, OriginalName(names, LIST_SIZE_DIRECTIVE_NAME_IN_SPEC))
        size_built == list_size_directive(schema1, size_found.value.arguments)
    IN  IF cost_found.some /\ ~cost_built.ok
            THEN [result |-> cost_built, schema |-> schema]
        ELSE IF cost_found.some /\ ~cost_inserted.result.ok
            THEN cost_inserted
        ELSE IF ~size_found.some
            THEN [result |-> Ok(Unit), schema |-> schema1]
        ELSE IF ~size_built.ok
            THEN [result |-> size_built, schema |-> schema1]
        ELSE insert_directive(schema1, size_built.value)

----------------------------------------------------------------------------
(* Inputs of the propagation specification *)

Restrict(f, D) == [k \in D |-> f[k]]

(* Names a source application can carry: the canonical ones and the aliases
   the source document imported them under. *)
SourceAlias == [cost |-> "myCost", listSize |-> "myListSize"]
SourceNames == CanonicalNames \cup {SourceAlias[k] : k \in CanonicalNames}

(* @cost and @listSize are not repeatable: a valid source position carries at
   most one application of each name. *)
DistinctNames(list) ==
    \A i, j \in 1..Len(list) : list[i].name = list[j].name => i = j

SourceLists ==
    { l \in UNION { [1..n -> [name : SourceNames, arguments : SourceArgLists]]
                    : n \in 0..MaxSourceLen } : DistinctNames(l) }

RenameTables == { Restrict(SourceAlias, D) : D \in SUBSET CanonicalNames }

(* The destination schema's link metadata for the Cost identity. *)
DestAlias == [cost |-> "c", listSize |-> "ls"]
NoRenames == Restrict(DestAlias, {})
LinkStates ==
    { [state |-> s, renames |-> NoRenames, qualified |-> FALSE]
        : s \in {"inconsistent", "unlinked"} }
    \cup
    { [state |-> "linked", renames |-> Restrict(DestAlias, D), qualified |-> q]
        : D \in SUBSET CanonicalNames, q \in BOOLEAN }

(* What the destination may carry before the first call: nothing, or one
   application of a cost or listSize name, with the arguments of a source
   application or with others. *)
Weight5 == << [name |-> COST_WEIGHT_ARGUMENT_NAME, value |-> 5] >>
InitialDests == { << >>, << Directive(COST_DIRECTIVE_NAME_DEFAULT, Weight5) >> }
NoEnum == [present |-> FALSE, directives |-> << >>]
InitialEnums ==
    {NoEnum} \cup
    { [present |-> TRUE, directives |-> l]
        : l \in { << >> }
                \cup { << Directive(COST_DIRECTIVE_NAME_DEFAULT, a) >> : a \in SourceArgLists }
                \cup { << Directive(LIST_SIZE_DIRECTIVE_NAME_DEFAULT, Weight5) >>,
                       << Directive(DestAlias.cost, Weight5) >> } }

(* One entry of the call history: the operation, its result, and the
   destination list, schema, source and rename table as the call left them. *)
Entry(op, result, list, schema, src, names) ==
    [op |-> op, result |-> result, dest |-> list, schema |-> schema,
     source |-> src, names |-> names]

----------------------------------------------------------------------------
(* Idle values of the variables a specification does not use *)

NoCall == [kind |-> "none"]
IdleCost ==
    /\ source = << >>
    /\ original_directive_names = Restrict(SourceAlias, {})
    /\ subgraph_schema = [links |-> [state |-> "unlinked", renames |-> NoRenames,
                                     qualified |-> FALSE],
                          enum |-> NoEnum]
    /\ dest = << >>
    /\ hist = << >>
IdleBuild == built = NoCall
IdleConnect ==
    /\ directive = NoCall
    /\ discovered = NoCall
    /\ lookups = << >>

----------------------------------------------------------------------------
(* Specification of the propagation operations *)

InitCost ==
    /\ source \in SourceLists
    /\ original_directive_names \in RenameTables
    /\ \E l \in LinkStates, e \in InitialEnums :
          subgraph_schema = [links |-> l, enum |-> e]
    /\ dest \in InitialDests
    /\ dest = << >> \/ subgraph_schema.enum = NoEnum
    /\ hist = << Entry("init", Ok(Unit), dest, subgraph_schema, source,
                       original_directive_names) >>

Propagate ==
    /\ Len(hist) <= MaxCalls
    /\ UNCHANGED << source, original_directive_names, subgraph_schema >>
    /\ LET r == propagate_demand_control_directives(
                    subgraph_schema, source, dest, original_directive_names)
       IN  /\ dest' = r.dest
           /\ hist' = Append(hist, Entry("propagate", r.result, dest', subgraph_schema',
                                         source', original_directive_names'))
    /\ UNCHANGED << built, connectVars, registryVars >>

PropagateForEnum ==
    /\ Len(hist) <= MaxCalls
    /\ UNCHANGED << source, original_directive_names, dest >>
    /\ LET r == propagate_demand_control_directives_for_enum(
                    subgraph_schema, source, original_directive_names)
       IN  /\ subgraph_schema' = r.schema
           /\ hist' = Append(hist, Entry("for_enum", r.result, dest', subgraph_schema',
                                         source', original_directive_names'))
    /\ UNCHANGED << built, connectVars, registryVars >>

----------------------------------------------------------------------------
(* Version, Identity, Url *)

Version(major, minor) == [major |-> major, minor |-> minor]
Identity(domain, name) == [domain |-> domain, name |-> name]
Url(identity, version) == [identity |-> identity, version |-> version]

APOLLO_SPEC_DOMAIN == "https://specs.apollo.dev"
MalformedSpecUrl == "MalformedSpecUrl"

(* The text of a url argument: its domain part, its name segment and the
   characters of its last (version) segment, empty when there is none. *)
VersionChars == {"v", "0", "1", "."}
Digits == {"0", "1"}
DigitValue(c) == IF c = "0" THEN 0 ELSE 1

RECURSIVE DecimalValue(_)
DecimalValue(digits) ==
    IF Len(digits) = 0 THEN 0
    ELSE 10 * DecimalValue(SubSeq(digits, 1, Len(digits) - 1))
         + DigitValue(digits[Len(digits)])

AllDigits(t) == Len(t) > 0 /\ \A i \in 1..Len(t) : t[i] \in Digits

RECURSIVE IndexOf(_, _, _)
IndexOf(t, c, i) ==
    IF i > Len(t) THEN 0 ELSE IF t[i] = c THEN i ELSE IndexOf(t, c, i + 1)

(* Version::from_str: `v`, the major digits, `.`, the minor digits. *)
ParseVersion(t) ==
    LET dot == IndexOf(t, ".", 1)
        major == SubSeq(t, 2, dot - 1)
        minor == SubSeq(t, dot + 1, Len(t))
    IN  IF Len(t) = 0 \/ t[1] # "v" \/ dot = 0 THEN Err(MalformedSpecUrl)
        ELSE IF ~AllDigits(major) \/ ~AllDigits(minor) THEN Err(MalformedSpecUrl)
        ELSE Ok(Version(DecimalValue(major), DecimalValue(minor)))

(* Url::from_str *)
ParseUrl(text) ==
    LET version == ParseVersion(text.version)
    IN  IF ~version.ok THEN version
        ELSE Ok(Url(Identity(text.domain, text.name), version.value))

----------------------------------------------------------------------------
(* SpecDefinitions<T>: the registry of one identity's released versions *)

SpecDefinitionsNew(identity) == [identity |-> identity, definitions |-> << >>]

RECURSIVE FindFrom(_, _, _)
FindFrom(definitions, version, i) ==
    IF i > Len(definitions) THEN None
    ELSE IF definitions[i].url.version = version THEN Some(definitions[i])
    ELSE FindFrom(definitions, version, i + 1)

(* SpecDefinitions::find: exact-version lookup. *)
SpecDefinitionsFind(registry, version) == FindFrom(registry.definitions, version, 1)

(* SpecDefinitions::add: rejects another identity and a version already there. *)
SpecDefinitionsAdd(registry, definition) ==
    IF definition.url.identity # registry.identity
       \/ SpecDefinitionsFind(registry, definition.url.version).some
    THEN registry
    ELSE [registry EXCEPT !.definitions = Append(@, definition)]

----------------------------------------------------------------------------
(* The Cost and Connect definitions and their registries *)

CostIdentity == Identity(APOLLO_SPEC_DOMAIN, "cost")
ConnectIdentity == Identity(APOLLO_SPEC_DOMAIN, "connect")

CostSpecDefinitionNew(version, minimum_federation_version) ==
    [url |-> Url(CostIdentity, version),
     minimum_federation_version |-> minimum_federation_version]

ConnectSpecDefinitionNew(version, minimum_federation_version) ==
    [url |-> Url(ConnectIdentity, version),
     minimum_federation_version |-> minimum_federation_version]

(* The initialiser blocks of the two lazy statics, statement by statement. *)
InitialiserIdentity(static) ==
    IF static = "COST_VERSIONS" THEN CostIdentity ELSE ConnectIdentity

InitialiserDefinition(static) ==
    IF static = "COST_VERSIONS"
    THEN CostSpecDefinitionNew(Version(0, 1), Some(Version(2, 9)))
    ELSE ConnectSpecDefinitionNew(Version(0, 1), Some(Version(2, 8)))

COST_VERSIONS ==
    SpecDefinitionsAdd(SpecDefinitionsNew(InitialiserIdentity("COST_VERSIONS")),
                       InitialiserDefinition("COST_VERSIONS"))

CONNECT_VERSIONS ==
    SpecDefinitionsAdd(SpecDefinitionsNew(InitialiserIdentity("CONNECT_VERSIONS")),
                       InitialiserDefinition("CONNECT_VERSIONS"))

----------------------------------------------------------------------------
(* ConnectSpecDefinition::from_directive *)

(* Directive::argument_by_name *)
RECURSIVE ArgumentFrom(_, _, _)
ArgumentFrom(arguments, name, i) ==
    IF i > Len(arguments) THEN None
    ELSE IF arguments[i].name = name THEN Some(arguments[i])
    ELSE ArgumentFrom(arguments, name, i + 1)

argument_by_name(d, name) == ArgumentFrom(d.arguments, name, 1)

(* Value::as_str *)
as_str(value) == IF value.kind = "string" THEN Some(value.text) ELSE None

UrlArgument(d) ==
    LET a == argument_by_name(d, "url")
    IN  IF a.some THEN as_str(a.value.value) ELSE None

(* Variants of from_directive: a url that does not parse treated as no url;
   the parsed identity compared with the Connect identity. *)
from_directive_lenient(d) ==
    LET url == UrlArgument(d)
        parsed == ParseUrl(url.value)
    IN  IF ~url.some THEN Ok(None)
        ELSE IF ~parsed.ok THEN Ok(None)
        ELSE Ok(SpecDefinitionsFind(CONNECT_VERSIONS, parsed.value.version))

from_directive_same_identity(d) ==
    LET url == UrlArgument(d)
        parsed == ParseUrl(url.value)
    IN  IF ~url.some THEN Ok(None)
        ELSE IF ~parsed.ok THEN parsed
        ELSE IF parsed.value.identity # CONNECT_VERSIONS.identity THEN Ok(None)
        ELSE Ok(SpecDefinitionsFind(CONNECT_VERSIONS, parsed.value.version))

from_directive(d) ==
    LET url == UrlArgument(d)
        parsed == ParseUrl(url.value)
    IN  IF ~url.some THEN Ok(None)
        ELSE IF ~parsed.ok THEN parsed
        ELSE Ok(SpecDefinitionsFind(CONNECT_VERSIONS, parsed.value.version))

Next == Propagate \/ PropagateForEnum

----------------------------------------------------------------------------
(* Specification of directive construction *)

ArgLists == UNION { [1..n -> Arguments] : n \in 0..MaxArgs }

BuildCost(arguments) ==
    /\ built' = [kind |-> "cost", arguments |-> arguments,
                 result |-> cost_directive(subgraph_schema, arguments)]
    /\ UNCHANGED << costVars, connectVars, registryVars >>

BuildListSize(arguments) ==
    /\ built' = [kind |-> "listSize", arguments |-> arguments,
                 result |-> list_size_directive(subgraph_schema, arguments)]
    /\ UNCHANGED << costVars, connectVars, registryVars >>

NextBuild ==
    \/ \E arguments \in ArgLists : BuildCost(arguments)
    \/ \E arguments \in ArgLists : BuildListSize(arguments)

----------------------------------------------------------------------------
(* Specification of Connect discovery *)

Domains == {APOLLO_SPEC_DOMAIN, "https://example.com"}
SpecNames == {"connect", "cost"}
VersionTexts == UNION { [1..n -> VersionChars] : n \in 0..MaxVersionLen }
UrlTexts == [domain : Domains, name : SpecNames, version : VersionTexts]

StringValue(text) == [kind |-> "string", text |-> text]
Argument(name, value) == [name |-> name, value |-> value]

(* Directive applications that may be handed to from_directive: without a url
   argument, with a url that is not a string, with a url string. *)
LinkDirectives ==
    { [name |-> "link", arguments |-> a]
        : a \in { << >>,
                  << Argument("as", [kind |-> "enum"]) >>,
                  << Argument("url", [kind |-> "int"]) >> } }
    \cup
    { [name |-> "link", arguments |-> << Argument("url", StringValue(t)) >>]
        : t \in UrlTexts }

FromDirective(d) ==
    /\ directive = NoCall
    /\ directive' = d
    /\ discovered' = from_directive(d)
    /\ UNCHANGED << costVars, built, lookups, registryVars >>

NextDiscovery == \E d \in LinkDirectives : FromDirective(d)

(* What a lookup keeps of a call: the url the argument parses to, and the result. *)
Lookup(d) ==
    [argument |-> UrlArgument(d).some,
     url |-> IF UrlArgument(d).some THEN ParseUrl(UrlArgument(d).value)
             ELSE Err("no url"),
     result |-> from_directive(d)]

FirstLookup(d) ==
    /\ lookups = << >>
    /\ lookups' = << Lookup(d) >>
    /\ UNCHANGED << costVars, built, directive, discovered, registryVars >>

SecondLookup(d) ==
    /\ Len(lookups) = 1
    /\ lookups' = Append(lookups, Lookup(d))
    /\ UNCHANGED << costVars, built, directive, discovered, registryVars >>

NextLookups ==
    \/ \E d \in LinkDirectives : FirstLookup(d)
    \/ \E d \in LinkDirectives : SecondLookup(d)

----------------------------------------------------------------------------
(* Specification of the lazy statics COST_VERSIONS and CONNECT_VERSIONS:
   lazy_static! guards each initialiser block with a Once.  A thread that
   dereferences the static runs the block if the Once is incomplete, waits
   while another thread runs it, and reads the published value once it is
   complete. *)

Statics == {"COST_VERSIONS", "CONNECT_VERSIONS"}
Threads == 1..NumThreads
LookupVersions == {Version(0, 1), Version(0, 2)}

IdleThread == [pc |-> "idle", static |-> "COST_VERSIONS", version |-> Version(0, 1),
               definitions |-> None]

IdleRegistry ==
    /\ lazy = [s \in Statics |-> [once |-> "incomplete", value |-> None]]
    /\ threads = [t \in Threads |-> IdleThread]
    /\ initRuns = [s \in Statics |-> 0]
    /\ published = [s \in Statics |-> None]
    /\ reads = {}

(* A thread starts STATIC.find(&version): the static is dereferenced first. *)
Access(t, static, version) ==
    /\ threads[t].pc = "idle"
    /\ threads' = [threads EXCEPT ![t] = [@ EXCEPT !.pc = "deref", !.static = static,
                                                   !.version = version]]
    /\ UNCHANGED << lazy, initRuns, published, reads >>
    /\ UNCHANGED << costVars, built, connectVars >>

(* An initialisation guarded by a flag that is read and then set, with no
   exclusion: a thread that finds the block running runs it as well. *)
OnceCallUnsynchronised(t) ==
    /\ threads[t].pc = "deref"
    /\ \/ /\ lazy[threads[t].static].once # "complete"
          /\ lazy' = [lazy EXCEPT ![threads[t].static].once = "running"]
          /\ threads' = [threads EXCEPT ![t].pc = "new"]
       \/ /\ lazy[threads[t].static].once = "complete"
          /\ threads' = [threads EXCEPT ![t].pc = "find"]
          /\ UNCHANGED lazy
    /\ UNCHANGED << initRuns, published, reads >>
    /\ UNCHANGED << costVars, built, connectVars >>

(* Once::call_once *)
OnceCall(t) ==
    /\ threads[t].pc = "deref"
    /\ \/ /\ lazy[threads[t].static].once = "incomplete"
          /\ lazy' = [lazy EXCEPT ![threads[t].static].once = "running"]
          /\ threads' = [threads EXCEPT ![t].pc = "new"]
       \/ /\ lazy[threads[t].static].once = "complete"
          /\ threads' = [threads EXCEPT ![t].pc = "find"]
          /\ UNCHANGED lazy
    /\ UNCHANGED << initRuns, published, reads >>
    /\ UNCHANGED << costVars, built, connectVars >>

(* let mut definitions = SpecDefinitions::new(identity); *)
InitialiserNew(t) ==
    /\ threads[t].pc = "new"
    /\ initRuns[threads[t].static] <= NumThreads
    /\ threads' = [threads EXCEPT ![t] =
          [@ EXCEPT !.pc = "add",
                    !.definitions = Some(SpecDefinitionsNew(InitialiserIdentity(threads[t].static)))]]
    /\ initRuns' = [initRuns EXCEPT ![threads[t].static] = @ + 1]
    /\ UNCHANGED << lazy, published, reads >>
    /\ UNCHANGED << costVars, built, connectVars >>

(* definitions.add(..::new(Version { major: 0, minor: 1 }, Some(..))); *)
InitialiserAdd(t) ==
    /\ threads[t].pc = "add"
    /\ threads' = [threads EXCEPT ![t] =
          [@ EXCEPT !.pc = "publish",
                    !.definitions = Some(SpecDefinitionsAdd(threads[t].definitions.value,
                                             InitialiserDefinition(threads[t].static)))]]
    /\ UNCHANGED << lazy, initRuns, published, reads >>
    /\ UNCHANGED << costVars, built, connectVars >>

(* The block's value is stored in the static and the Once completes. *)
InitialiserPublish(t) ==
    /\ threads[t].pc = "publish"
    /\ lazy' = [lazy EXCEPT ![threads[t].static] =
                   [once |-> "complete", value |-> threads[t].definitions]]
    /\ published' = [published EXCEPT ![threads[t].static] =
                        IF @.some THEN @ ELSE threads[t].definitions]
    /\ threads' = [threads EXCEPT ![t] = [@ EXCEPT !.pc = "find", !.definitions = None]]
    /\ UNCHANGED << initRuns, reads >>
    /\ UNCHANGED << costVars, built, connectVars >>

(* SpecDefinitions::find on the dereferenced static. *)
Find(t) ==
    /\ threads[t].pc = "find"
    /\ LET cell == lazy[threads[t].static].value
       IN  reads' = reads \cup
              { [static |-> threads[t].static, version |-> threads[t].version,
                 seen |-> cell,
                 result |-> IF cell.some
                            THEN SpecDefinitionsFind(cell.value, threads[t].version)
                            ELSE None] }
    /\ threads' = [threads EXCEPT ![t].pc = "idle"]
    /\ UNCHANGED << lazy, initRuns, published >>
    /\ UNCHANGED << costVars, built, connectVars >>

NextRegistry ==
    \E t \in Threads :
        \/ \E s \in Statics, v \in LookupVersions : Access(t, s, v)
        \/ OnceCall(t)
        \/ InitialiserNew(t)
        \/ InitialiserAdd(t)
        \/ InitialiserPublish(t)
        \/ Find(t)

----------------------------------------------------------------------------
(* The specifications *)

InitPropagation == InitCost /\ IdleBuild /\ IdleConnect /\ IdleRegistry
Spec == InitPropagation /\ [][Next]_vars

InitBuild ==
    /\ source = << >>
    /\ original_directive_names = Restrict(SourceAlias, {})
    /\ \E l \in LinkStates : subgraph_schema = [links |-> l, enum |-> NoEnum]
    /\ dest = << >>
    /\ hist = << >>
    /\ IdleBuild /\ IdleConnect /\ IdleRegistry
SpecBuild == InitBuild /\ [][NextBuild]_vars

InitConnect == IdleCost /\ IdleBuild /\ IdleConnect /\ IdleRegistry
SpecDiscovery == InitConnect /\ [][NextDiscovery]_vars
SpecLookups == InitConnect /\ [][NextLookups]_vars

InitRegistry == IdleCost /\ IdleBuild /\ IdleConnect /\ IdleRegistry
SpecRegistry == InitRegistry /\ [][NextRegistry]_vars

----------------------------------------------------------------------------
(* Vocabulary of the properties of propagation *)

(* The calls of the history: entry i is call i - 1, entry i - 1 the state before it. *)
Calls == 2..Len(hist)
CallsOf(op) == { i \in Calls : hist[i].op = op }
Before(i) == hist[i - 1]
After(i) == hist[i]

(* What call i appended to the destination list. *)
Gained(i) == SubSeq(After(i).dest, Len(Before(i).dest) + 1, Len(After(i).dest))
KeepsPrefix(i) ==
    /\ Len(After(i).dest) >= Len(Before(i).dest)
    /\ SubSeq(After(i).dest, 1, Len(Before(i).dest)) = Before(i).dest

(* The applications of the source that carry `name_in_spec` under its original name. *)
SourceApplications(name_in_spec) ==
    { i \in 1..Len(source) :
        source[i].name = IF name_in_spec \in DOMAIN original_directive_names
                         THEN original_directive_names[name_in_spec]
                         ELSE name_in_spec }
SourceCarries(name_in_spec) == SourceApplications(name_in_spec) # {}
SourceArguments(name_in_spec) ==
    source[CHOOSE i \in SourceApplications(name_in_spec) : TRUE].arguments

(* The name resolution tiers: explicit rename, linked default, unlinked default
   (and no name at all when resolution fails). *)
UnlinkedDefault(name_in_spec) ==
    IF name_in_spec = "cost" THEN "federation__cost" ELSE "federation__listSize"
TierName(links, name_in_spec) ==
    CASE links.state = "unlinked" -> UnlinkedDefault(name_in_spec)
      [] links.state = "linked" /\ name_in_spec \in DOMAIN links.renames
            -> links.renames[name_in_spec]
      [] links.state = "linked" /\ name_in_spec \notin DOMAIN links.renames
            -> IF links.qualified THEN LinkedDefault(name_in_spec) ELSE name_in_spec
      [] OTHER -> "(unresolved)"
Resolves(links) == links.state # "inconsistent"
Rebuilt(name_in_spec) ==
    [name |-> TierName(subgraph_schema.links, name_in_spec),
     arguments |-> SourceArguments(name_in_spec)]

Named(list, name) == { j \in 1..Len(list) : list[j].name = name }

----------------------------------------------------------------------------
(* C1: propagation fidelity.  After a successful field/type-level call, for
   each of cost and listSize that the source carries under its original name
   (the alias of the rename table, or the canonical name), the destination
   has gained exactly one directive named with the destination schema's
   resolved name (federation__cost / federation__listSize without a Link),
   and it carries the source application's argument list unchanged. *)
C1_PropagationFidelity ==
    \A i \in CallsOf("propagate") :
        After(i).result.ok =>
            \A k \in CanonicalNames : \A a \in SourceApplications(k) :
                /\ KeepsPrefix(i)
                /\ Cardinality(Named(Gained(i), TierName(subgraph_schema.links, k))) = 1
                /\ \A j \in Named(Gained(i), TierName(subgraph_schema.links, k)) :
                       Gained(i)[j].arguments = source[a].arguments

(* The spec's scenario: source [@myCost(weight: 5)], table {cost -> myCost},
   no Link for Cost; the destination ends as [@federation__cost(weight: 5)]. *)
C1_Witness ==
    /\ Len(hist) = 2 /\ hist[2].op = "propagate" /\ hist[2].result.ok
    /\ source = << [name |-> "myCost", arguments |-> << [name |-> "weight", value |-> 5] >>] >>
    /\ original_directive_names = [k \in {"cost"} |-> "myCost"]
    /\ subgraph_schema.links.state = "unlinked"
    /\ dest = << [name |-> "federation__cost",
                  arguments |-> << [name |-> "weight", value |-> 5] >>] >>

(* C8: the two directives are handled independently and in a fixed order.
   After a successful field/type-level call the destination is its previous
   contents, then the rebuilt cost directive iff the source carries cost
   under its original name, then the rebuilt listSize directive iff the
   source carries listSize under its original name; the source list and the
   rename table are as they were. *)
C8_IndependentInOrder ==
    \A i \in CallsOf("propagate") :
        After(i).result.ok =>
            /\ After(i).dest =
                  Before(i).dest
                  \o (IF SourceCarries("cost") THEN << Rebuilt("cost") >> ELSE << >>)
                  \o (IF SourceCarries("listSize") THEN << Rebuilt("listSize") >> ELSE << >>)
            /\ After(i).source = Before(i).source
            /\ After(i).names = Before(i).names

C8_Witness ==
    /\ \E i \in CallsOf("propagate") :
          /\ After(i).result.ok
          /\ Len(Gained(i)) = 2
          /\ Len(Before(i).dest) = 1
    /\ SourceCarries("cost") /\ SourceCarries("listSize")
    /\ source[1].name = "myListSize"

(* C4: absence is not an error.  A call of either operation on a source that
   carries neither cost nor listSize under its original name returns success
   and leaves the destination list and the schema as they were. *)
C4_AbsenceIsNotAnError ==
    \A i \in Calls :
        (~SourceCarries("cost") /\ ~SourceCarries("listSize")) =>
            /\ After(i).result = Ok(Unit)
            /\ After(i).dest = Before(i).dest
            /\ After(i).schema = Before(i).schema

C4_Witness ==
    /\ ~SourceCarries("cost") /\ ~SourceCarries("listSize")
    /\ Len(source) > 0
    /\ subgraph_schema.links.state = "inconsistent"
    /\ CallsOf("propagate") # {} /\ CallsOf("for_enum") # {}
    /\ \A i \in Calls : After(i).result.ok

(* The enum's directives around call i, and the cost step of the enum variant. *)
EnumBefore(i) == Before(i).schema.enum
EnumAfter(i) == After(i).schema.enum
CostStepFails(i) ==
    /\ SourceCarries("cost")
    /\ \/ ~Resolves(subgraph_schema.links)
       \/ ~EnumBefore(i).present
       \/ \E j \in Named(EnumBefore(i).directives, Rebuilt("cost").name) :
              EnumBefore(i).directives[j].arguments # Rebuilt("cost").arguments

(* C3: enum propagation conflict.  Propagating a cost application onto an
   enum that already carries an application of the resolved cost name with
   other arguments fails with ConflictingDirectiveInsertion and leaves the
   schema, the existing directive included, as it was. *)
C3_EnumConflict ==
    \A i \in CallsOf("for_enum") :
        ( /\ SourceCarries("cost")
          /\ Resolves(subgraph_schema.links)
          /\ EnumBefore(i).present
          /\ \E j \in Named(EnumBefore(i).directives, Rebuilt("cost").name) :
                EnumBefore(i).directives[j].arguments # Rebuilt("cost").arguments )
        => /\ After(i).result = Err(ConflictingDirectiveInsertion)
           /\ After(i).schema = Before(i).schema

(* @cost(weight: 5) onto an enum carrying @federation__cost with other arguments. *)
C3_Witness ==
    /\ Len(hist) = 2 /\ hist[2].op = "for_enum"
    /\ source = << [name |-> "cost", arguments |-> << [name |-> "weight", value |-> 5] >>] >>
    /\ original_directive_names = [k \in {} |-> "myCost"]
    /\ subgraph_schema.links.state = "unlinked"
    /\ subgraph_schema.enum.present
    /\ Len(subgraph_schema.enum.directives) = 1
    /\ subgraph_schema.enum.directives[1].name = "federation__cost"
    /\ subgraph_schema.enum.directives[1].arguments # source[1].arguments
    /\ hist[2].result = Err(ConflictingDirectiveInsertion)

(* C9: what a failed enum propagation leaves behind.  When the call returns
   an error, the schema differs from the one before the call by at most the
   rebuilt cost directive appended to the enum; if the cost step failed the
   schema is unchanged; if the cost step passed, the listSize step failed:
   the enum then carries the rebuilt cost directive when the source carries
   cost, and no listSize directive was added. *)
C9_FailedEnumPropagation ==
    \A i \in CallsOf("for_enum") :
        ~After(i).result.ok =>
            /\ After(i).schema.links = Before(i).schema.links
            /\ EnumAfter(i).present = EnumBefore(i).present
            /\ \/ EnumAfter(i).directives = EnumBefore(i).directives
               \/ /\ SourceCarries("cost") /\ Resolves(subgraph_schema.links)
                  /\ EnumAfter(i).directives =
                        Append(EnumBefore(i).directives, Rebuilt("cost"))
            /\ CostStepFails(i) => After(i).schema = Before(i).schema
            /\ (~CostStepFails(i) /\ SourceCarries("cost")) =>
                   \E j \in 1..Len(EnumAfter(i).directives) :
                       EnumAfter(i).directives[j] = Rebuilt("cost")

(* The cost directive is inserted, then the listSize step fails on a conflict. *)
C9_Witness ==
    \E i \in CallsOf("for_enum") :
        /\ After(i).result = Err(ConflictingDirectiveInsertion)
        /\ SourceCarries("cost") /\ SourceCarries("listSize")
        /\ ~CostStepFails(i)
        /\ EnumAfter(i).directives = Append(EnumBefore(i).directives, Rebuilt("cost"))

(* C5 as stated: both propagation operations are idempotent, a second
   application right after the first leaves the destination as the first did. *)
C5_Idempotent ==
    \A i \in Calls :
        (i - 1 \in Calls /\ hist[i].op = hist[i - 1].op) =>
            /\ After(i).dest = Before(i).dest
            /\ After(i).schema = Before(i).schema

(* C5 amended: enum propagation is idempotent; a repeated field/type-level
   propagation appends once more what the first call appended, so it leaves
   the destination list unchanged only when the first call appended nothing. *)
C5_RepeatedPropagation ==
    \A i \in Calls :
        (i - 1 \in Calls /\ hist[i].op = hist[i - 1].op) =>
            /\ After(i).schema = Before(i).schema
            /\ hist[i].op = "for_enum" => After(i).dest = Before(i).dest
            /\ hist[i].op = "propagate" =>
                   /\ After(i).dest = Before(i).dest \o Gained(i - 1)
                   /\ After(i).result = Before(i).result

C5_Witness ==
    /\ Len(hist) = 3
    /\ hist[2].op = "propagate" /\ hist[3].op = "propagate"
    /\ hist[3].result.ok
    /\ Len(Gained(2)) = 2
    /\ Len(hist[3].dest) = Len(hist[1].dest) + 4

----------------------------------------------------------------------------
(* C2: directive construction follows the name resolution tiers.  The
   directive cost_directive / list_size_directive builds is named with the
   unlinked default when the schema has no Link for Cost, with the explicit
   rename when the Link has one, otherwise with the canonical name (or the
   linked default); it carries the caller's argument list unchanged; a name
   resolution error is returned and no directive is built. *)
C2_ConstructionTiers ==
    built # NoCall =>
        IF Resolves(subgraph_schema.links)
        THEN built.result = Ok([name |-> TierName(subgraph_schema.links, built.kind),
                                arguments |-> built.arguments])
        ELSE built.result = Err(DirectiveNameResolutionFailure)

C2_Witness ==
    /\ built # NoCall
    /\ built.kind = "listSize"
    /\ Len(built.arguments) = 2
    /\ subgraph_schema.links.state = "linked"
    /\ "listSize" \in DOMAIN subgraph_schema.links.renames
    /\ built.result.ok
    /\ built.result.value.name = "ls"

----------------------------------------------------------------------------
(* Vocabulary of the properties of Connect discovery *)

(* The url argument of the directive handed to from_directive, when it is a string. *)
HasUrlString(d) ==
    \E i \in 1..Len(d.arguments) :
        /\ d.arguments[i].name = "url"
        /\ d.arguments[i].value.kind = "string"
        /\ \A j \in 1..(i - 1) : d.arguments[j].name # "url"
UrlString(d) ==
    d.arguments[CHOOSE i \in 1..Len(d.arguments) : d.arguments[i].name = "url"].value.text

(* vMAJOR.MINOR with the dot at position j. *)
SplitsAt(t, j) ==
    /\ j \in 3..(Len(t) - 1)
    /\ t[1] = "v" /\ t[j] = "."
    /\ \A i \in (2..(j - 1)) \cup ((j + 1)..Len(t)) : t[i] \in {"0", "1"}
WellFormed(t) == \E j \in 1..Len(t) : SplitsAt(t, j)
Denotes(t, major, minor) ==
    \E j \in 1..Len(t) :
        /\ SplitsAt(t, j)
        /\ DecimalValue(SubSeq(t, 2, j - 1)) = major
        /\ DecimalValue(SubSeq(t, j + 1, Len(t))) = minor

(* C6: Connect discovery.  from_directive returns none for a directive
   without a url string, the MalformedSpecUrl error for a url that does not
   parse, none for a well-formed url of a version that CONNECT_VERSIONS does
   not hold, and the registered definition of exactly that version (0.1)
   otherwise. *)
C6_ConnectDiscovery ==
    directive # NoCall =>
        IF ~HasUrlString(directive) THEN discovered = Ok(None)
        ELSE IF ~WellFormed(UrlString(directive).version)
            THEN discovered = Err(MalformedSpecUrl)
        ELSE IF ~Denotes(UrlString(directive).version, 0, 1)
            THEN discovered = Ok(None)
        ELSE /\ discovered.ok /\ discovered.value.some
             /\ discovered.value.value.url.version = [major |-> 0, minor |-> 1]
             /\ discovered.value.value =
                    [url |-> [identity |-> [domain |-> "https://specs.apollo.dev",
                                            name |-> "connect"],
                              version |-> [major |-> 0, minor |-> 1]],
                     minimum_federation_version |-> Some([major |-> 2, minor |-> 8])]

(* A url whose version segment is cut short is a parse failure, not a none. *)
C6_Witness ==
    /\ directive # NoCall
    /\ HasUrlString(directive)
    /\ UrlString(directive).version = << "v", "0", "." >>
    /\ discovered = Err(MalformedSpecUrl)

(* C10: the result of from_directive depends only on the parsed version.
   Two directives whose urls parse to the same version get the same result,
   whatever identities the urls name, and a returned definition has the
   parsed version. *)
C10_VersionOnly ==
    /\ \A i, j \in 1..Len(lookups) :
          ( /\ lookups[i].url.ok /\ lookups[j].url.ok
            /\ lookups[i].url.value.version = lookups[j].url.value.version )
          => lookups[i].result = lookups[j].result
    /\ \A i \in 1..Len(lookups) :
          (lookups[i].url.ok /\ lookups[i].result.ok /\ lookups[i].result.value.some)
          => lookups[i].result.value.value.url.version = lookups[i].url.value.version

C10_Witness ==
    /\ Len(lookups) = 2
    /\ lookups[1].url.ok /\ lookups[2].url.ok
    /\ lookups[1].url.value.identity = ConnectIdentity
    /\ lookups[2].url.value.identity = [domain |-> "https://example.com", name |-> "cost"]
    /\ lookups[1].url.value.version = lookups[2].url.value.version
    /\ lookups[2].result.ok /\ lookups[2].result.value.some

----------------------------------------------------------------------------
(* C7: registry initialisation and stability.  Under any interleaving of
   the threads, each initialiser block runs at most once; a static holds no
   value until its block has finished, and from then on the registry it was
   published with; every find() saw that whole registry, and two find()s of
   the same version on the same static returned the same definition. *)
FullRegistry(static) ==
    IF static = "COST_VERSIONS" THEN COST_VERSIONS ELSE CONNECT_VERSIONS

C7_InitialisedOnceAndStable ==
    /\ \A s \in Statics :
          /\ initRuns[s] <= 1
          /\ lazy[s].once # "complete" => lazy[s].value = None
          /\ lazy[s].once = "complete" =>
                /\ lazy[s].value = published[s]
                /\ lazy[s].value = Some(FullRegistry(s))
                /\ Len(lazy[s].value.value.definitions) = 1
    /\ \A o \in reads :
          /\ o.seen = Some(FullRegistry(o.static))
          /\ o.version = [major |-> 0, minor |-> 1] => o.result.some
    /\ \A o1, o2 \in reads :
          (o1.static = o2.static /\ o1.version = o2.version) => o1.result = o2.result

(* Two threads in a first access of the same static, one running the block,
   the other waiting, after the other static has been read. *)
C7_Witness ==
    /\ \E t1, t2 \in Threads :
          /\ threads[t1].pc = "publish" /\ threads[t2].pc = "deref"
          /\ threads[t1].static = threads[t2].static
    /\ \E o \in reads : o.result.some

====
